---- MODULE Spec2Model ----
(***************************************************************************)
(* A model of setup.py (ShellConfigManager): loading alias.txt, generating *)
(* the "## local-helpers" section and merging it into ~/.bashrc and        *)
(* ~/.zshrc with a ".backup" copy.                                         *)
(*                                                                         *)
(* Python str values are TLC strings (Len, SubSeq and \o work on them), so *)
(* the marker, the generated section and the documents are the program's   *)
(* real text.  A file is <<>> when it does not exist and <<text>> when it  *)
(* does.                                                                   *)
(***************************************************************************)
EXTENDS Integers, Sequences, FiniteSets, TLC

(***************************************************************************)
(* Bounds of the model.                                                    *)
(***************************************************************************)
\* a document is assembled from at most MaxPieces pieces of Pieces
MaxPieces == 2
\* main() is invoked at most MaxRuns times
MaxRuns == 2

(***************************************************************************)
(* Python str helpers.                                                     *)
(***************************************************************************)
\* the leftmost of a set of positions
Min(S) == CHOOSE x \in S : \A y \in S : x <= y

\* str.isspace() for one character (ASCII whitespace)
IsSpace(c) == c \in {" ", "\t", "\n", "\r", "\f"}

\* s holds a non-whitespace character at position i
Inked(s, i) == ~IsSpace(SubSeq(s, i, i))

\* str.strip(): from the first to the last non-whitespace character
Strip(s) ==
    IF \A i \in 1..Len(s) : ~Inked(s, i) THEN ""
    ELSE SubSeq(s,
                CHOOSE i \in 1..Len(s) :
                    Inked(s, i) /\ \A j \in 1..(i - 1) : ~Inked(s, j),
                CHOOSE i \in 1..Len(s) :
                    Inked(s, i) /\ \A j \in (i + 1)..Len(s) : ~Inked(s, j))

\* str.startswith / str.endswith
StartsWith(s, p) == Len(p) <= Len(s) /\ SubSeq(s, 1, Len(p)) = p
EndsWith(s, p) == Len(p) <= Len(s) /\ SubSeq(s, Len(s) - Len(p) + 1, Len(s)) = p

\* the positions >= from at which p occurs in s
Occurrences(s, p, from) ==
    {i \in from..(Len(s) - Len(p) + 1) : SubSeq(s, i, i + Len(p) - 1) = p}

\* str.find(p, from), 1-based; 0 when p does not occur
Find(s, p, from) ==
    IF Occurrences(s, p, from) = {} THEN 0 ELSE Min(Occurrences(s, p, from))

\* p in s
Contains(s, p) == Find(s, p, 1) # 0

\* "\n".join(lines)
RECURSIVE JoinLines(_)
JoinLines(lines) ==
    IF lines = <<>> THEN ""
    ELSE IF Len(lines) = 1 THEN lines[1]
    ELSE lines[1] \o "\n" \o JoinLines(Tail(lines))

\* str.replace(old, new) for a one-character old
RECURSIVE Replace(_, _, _)
Replace(s, old, new) ==
    IF s = "" THEN ""
    ELSE (IF SubSeq(s, 1, 1) = old THEN new ELSE SubSeq(s, 1, 1))
         \o Replace(SubSeq(s, 2, Len(s)), old, new)

\* str.lower() on the answers the prompt is given
Lower(s) == IF s = "Y" THEN "y" ELSE IF s = "N" THEN "n" ELSE s

(***************************************************************************)
(* ShellConfigManager.__init__                                             *)
(***************************************************************************)
markers == [start |-> "## local-helpers", end |-> "## local-helpers"]

\* Path(__file__).parent
script_dir == "/opt/local-helpers"

bashrc_path == ".bashrc"
zshrc_path == ".zshrc"
ConfigPaths == {bashrc_path, zshrc_path}

(***************************************************************************)
(* find_existing_section / remove_existing_section: the pattern            *)
(* re.escape(start) .*? re.escape(end) with re.DOTALL                      *)
(***************************************************************************)
\* pattern.search(content, from): the leftmost position at which start
\* occurs with an end behind it, and the nearest such end (non-greedy);
\* <<first, last>> of the matched span, <<0, 0>> for no match
Search(content, from) ==
    LET starts == {i \in Occurrences(content, markers.start, from) :
                     Find(content, markers.end, i + Len(markers.start)) # 0}
    IN  IF starts = {} THEN <<0, 0>>
        ELSE LET i == Min(starts)
                 j == Find(content, markers.end, i + Len(markers.start))
             IN  <<i, j + Len(markers.end) - 1>>

find_existing_section(content) == Search(content, 1)

\* mutant of SubAll: pattern.sub("", content, count=1), the first match only
SubOnce(content, from) ==
    LET m == Search(content, from)
    IN  IF m = <<0, 0>> THEN SubSeq(content, from, Len(content))
        ELSE SubSeq(content, from, m[1] - 1)
             \o SubSeq(content, m[2] + 1, Len(content))

\* pattern.sub("", content): every non-overlapping match, left to right
RECURSIVE SubAll(_, _)
SubAll(content, from) ==
    LET m == Search(content, from)
    IN  IF m = <<0, 0>> THEN SubSeq(content, from, Len(content))
        ELSE SubSeq(content, from, m[1] - 1) \o SubAll(content, m[2] + 1)

\* mutant of remove_existing_section: the .strip() is missing
remove_without_strip(content) == SubAll(content, 1)

remove_existing_section(content) == Strip(SubAll(content, 1))

(***************************************************************************)
(* load_aliases_from_file.  alias.txt is [state, lines]: state is          *)
(* "missing" (no such file), "unreadable" (open() raises) or "ok"; lines   *)
(* are the file's lines without their newline (line.strip() drops it).     *)
(* The aliases dict is a sequence of <<name, command>> in insertion order. *)
(***************************************************************************)
\* aliases[name] = command
RECURSIVE DictSet(_, _, _)
DictSet(aliases, name, command) ==
    IF aliases = <<>> THEN << <<name, command>> >>
    ELSE IF aliases[1][1] = name THEN << <<name, command>> >> \o Tail(aliases)
    ELSE <<aliases[1]>> \o DictSet(Tail(aliases), name, command)

\* the quotes around a command are dropped (lines 48-51)
Unquote(command) ==
    IF \/ StartsWith(command, "\"") /\ EndsWith(command, "\"")
       \/ StartsWith(command, "'") /\ EndsWith(command, "'")
    THEN SubSeq(command, 2, Len(command) - 1)
    ELSE command

\* the body of the for loop, on one line of the file (lines 30-60)
ParseLine(aliases, raw) ==
    LET line == Strip(raw)
    IN  IF line = "" \/ StartsWith(line, "#") THEN aliases
        ELSE IF Contains(line, "(){")
        THEN DictSet(aliases,
                     Strip(SubSeq(line, 1, Find(line, "(){", 1) - 1)), line)
        ELSE IF Contains(line, "=")
        THEN LET eq == Find(line, "=", 1)
             IN  DictSet(aliases, Strip(SubSeq(line, 1, eq - 1)),
                         Unquote(Strip(SubSeq(line, eq + 1, Len(line)))))
        ELSE aliases

RECURSIVE ParseLines(_, _)
ParseLines(aliases, lines) ==
    IF lines = <<>> THEN aliases
    ELSE ParseLines(ParseLine(aliases, Head(lines)), Tail(lines))

load_aliases_from_file(alias_file) ==
    IF alias_file.state = "missing" THEN <<>>
    ELSE IF alias_file.state = "unreadable" THEN <<>>
    ELSE ParseLines(<<>>, alias_file.lines)

(***************************************************************************)
(* generate_alias_content                                                  *)
(***************************************************************************)
get_script_absolute_path(script_name) ==
    Replace(script_dir \o "/" \o script_name, "\\", "/")

\* the line one alias contributes (lines 86-100)
AliasLine(alias_name, command) ==
    IF Contains(command, "(){") THEN command
    ELSE IF EndsWith(command, ".sh")
    THEN "alias " \o alias_name \o "=\""
         \o get_script_absolute_path(command) \o "\""
    ELSE IF EndsWith(command, ".py")
    THEN "alias " \o alias_name \o "=\"python3 "
         \o get_script_absolute_path(command) \o "\""
    ELSE "alias " \o alias_name \o "=\"" \o command \o "\""

AliasLines(aliases) == [i \in 1..Len(aliases) |-> AliasLine(aliases[i][1], aliases[i][2])]

generate_alias_content(aliases) ==
    JoinLines(<<markers.start,
                "# Aliases for local helper scripts",
                "# Generated automatically by setup.py",
                "">>
              \o AliasLines(aliases)
              \o <<"", markers.end>>)

(***************************************************************************)
(* The inputs: what ~/.bashrc may hold before the first run, what alias.txt *)
(* may hold, and what the user may answer to "Create ...? (y/n): ".        *)
(***************************************************************************)
\* a line of user text, a blank line, a lone marker line, a section left by
\* an earlier run, and the two halves of a marker
Pieces ==
    {"export A=1\n", "\n", "## local-helpers\n",
     "## local-helpers\nalias old=\"x\"\n## local-helpers",
     "## local", "-helpers"}

RECURSIVE Concat(_)
Concat(ps) == IF ps = <<>> THEN "" ELSE Head(ps) \o Concat(Tail(ps))

Documents == {Concat(ps) : ps \in UNION {[1..n -> Pieces] : n \in 0..MaxPieces}}

AliasFiles ==
    {[state |-> "missing", lines |-> <<>>],
     [state |-> "unreadable", lines |-> <<>>],
     [state |-> "ok", lines |-> <<"# my aliases", "", "not an alias">>],
     [state |-> "ok", lines |-> <<"ll = 'ls -la'", "up(){ cd ..; }">>],
     [state |-> "ok", lines |-> <<"gs=git status", "docs=dir-docs-generator.py",
                                  "  gs=\"git status -sb\"", "bk=backup.sh">>]}

Answers == {"y", "Y", "n", ""}

(***************************************************************************)
(* The state.                                                              *)
(***************************************************************************)
backup_path(file_path) == file_path \o ".backup"
Paths == ConfigPaths \cup {backup_path(p) : p \in ConfigPaths}

VARIABLES
    files,            \* the home directory: path -> <<>> or <<text>>
    alias_txt,        \* script_dir / "alias.txt"
    aliases,          \* self.aliases
    pc,               \* where main() is; "idle" between invocations
    config_path,      \* update_shell_config's parameter
    current_content,  \* update_shell_config's local
    new_content,      \* update_shell_config's local
    runs,             \* the invocations of main() so far
    orig,             \* config_path's file when the current call began
    started,          \* files when the current main() began
    hist              \* path -> the completed update_shell_config calls:
                      \*   [doc: the file before, gen: alias_content,
                      \*    out: the text written]

vars == <<files, alias_txt, aliases, pc, config_path, current_content,
          new_content, runs, orig, started, hist>>

locals == <<config_path, current_content, new_content, orig>>

Init ==
    /\ \E d \in {<<>>} \cup {<<t>> : t \in Documents} :
         files = [p \in Paths |-> IF p = bashrc_path THEN d ELSE <<>>]
    /\ alias_txt \in AliasFiles
    /\ aliases = <<>>
    /\ pc = "idle"
    /\ config_path = ""
    /\ current_content = ""
    /\ new_content = ""
    /\ runs = 0
    /\ orig = <<>>
    /\ started = files
    /\ hist = [p \in ConfigPaths |-> <<>>]

(***************************************************************************)
(* main() and run()                                                        *)
(***************************************************************************)
\* main(): ShellConfigManager() loads the aliases, then run() begins
Main ==
    /\ pc = "idle"
    /\ runs < MaxRuns
    /\ aliases' = load_aliases_from_file(alias_txt)
    /\ pc' = "run"
    /\ runs' = runs + 1
    /\ started' = files
    /\ UNCHANGED <<files, alias_txt, hist, locals>>

\* mutant of RunCheckAliases: the early return is missing
RunWithoutCheck ==
    /\ pc = "run"
    /\ pc' = "bashrc"
    /\ UNCHANGED <<files, alias_txt, aliases, runs, started, hist, locals>>

\* run(), lines 201-221: return when there is no alias; display_aliases and
\* verify_scripts_exist only print
RunCheckAliases ==
    /\ pc = "run"
    /\ pc' = IF aliases = <<>> THEN "idle" ELSE "bashrc"
    /\ UNCHANGED <<files, alias_txt, aliases, runs, started, hist, locals>>

\* the call of update_shell_config(path), or the skip to after
CallOrSkip(path, answer, after) ==
    IF files[path] # <<>> \/ Lower(answer) = "y"
    THEN /\ pc' = "read"
         /\ config_path' = path
    ELSE /\ pc' = after
         /\ UNCHANGED config_path

\* run(), lines 223-227
RunBashrc ==
    /\ pc = "bashrc"
    /\ \E answer \in Answers : CallOrSkip(bashrc_path, answer, "zshrc")
    /\ UNCHANGED <<files, alias_txt, aliases, runs, started, hist,
                   current_content, new_content, orig>>

\* run(), lines 229-233
RunZshrc ==
    /\ pc = "zshrc"
    /\ \E answer \in Answers : CallOrSkip(zshrc_path, answer, "idle")
    /\ UNCHANGED <<files, alias_txt, aliases, runs, started, hist,
                   current_content, new_content, orig>>

(***************************************************************************)
(* update_shell_config(config_path)                                        *)
(***************************************************************************)
\* mutant of ReadConfig: read_text() without .strip()
ReadConfigNoStrip ==
    /\ pc = "read"
    /\ orig' = files[config_path]
    /\ files' = IF files[config_path] = <<>>
                THEN [files EXCEPT ![config_path] = <<"">>]
                ELSE files
    /\ current_content' = files'[config_path][1]
    /\ pc' = "backup"
    /\ UNCHANGED <<alias_txt, aliases, runs, started, hist, config_path,
                   new_content>>

\* lines 132-137: touch a missing file, read and strip
ReadConfig ==
    /\ pc = "read"
    /\ orig' = files[config_path]
    /\ files' = IF files[config_path] = <<>>
                THEN [files EXCEPT ![config_path] = <<"">>]
                ELSE files
    /\ current_content' = Strip(files'[config_path][1])
    /\ pc' = "backup"
    /\ UNCHANGED <<alias_txt, aliases, runs, started, hist, config_path,
                   new_content>>

\* mutant of backup_file: an existing backup is never overwritten
backup_file_once(fs, file_path) ==
    IF fs[file_path] # <<>> /\ fs[backup_path(file_path)] = <<>>
    THEN [fs EXCEPT ![backup_path(file_path)] = fs[file_path]]
    ELSE fs

\* backup_file(file_path), on the home directory fs
backup_file(fs, file_path) ==
    IF fs[file_path] # <<>>
    THEN [fs EXCEPT ![backup_path(file_path)] = fs[file_path]]
    ELSE fs

\* line 140
BackupConfig ==
    /\ pc = "backup"
    /\ files' = backup_file(files, config_path)
    /\ pc' = "remove"
    /\ UNCHANGED <<alias_txt, aliases, runs, started, hist, locals>>

\* lines 143-147
RemoveSection ==
    /\ pc = "remove"
    /\ new_content' = IF find_existing_section(current_content) # <<0, 0>>
                      THEN remove_existing_section(current_content)
                      ELSE current_content
    /\ pc' = "add"
    /\ UNCHANGED <<files, alias_txt, aliases, runs, started, hist,
                   config_path, current_content, orig>>

\* mutant of AddSection: one newline, not a blank line, before the section
AddSectionOneNewline ==
    /\ pc = "add"
    /\ new_content' = IF new_content # ""
                      THEN new_content \o "\n" \o generate_alias_content(aliases)
                      ELSE generate_alias_content(aliases)
    /\ pc' = "write"
    /\ UNCHANGED <<files, alias_txt, aliases, runs, started, hist,
                   config_path, current_content, orig>>

\* lines 150-154
AddSection ==
    /\ pc = "add"
    /\ new_content' = IF new_content # ""
                      THEN new_content \o "\n\n" \o generate_alias_content(aliases)
                      ELSE generate_alias_content(aliases)
    /\ pc' = "write"
    /\ UNCHANGED <<files, alias_txt, aliases, runs, started, hist,
                   config_path, current_content, orig>>

\* line 157, and the return into run()
WriteConfig ==
    /\ pc = "write"
    /\ files' = [files EXCEPT ![config_path] = <<new_content>>]
    /\ hist' = [hist EXCEPT ![config_path] =
                  Append(@, [doc |-> orig,
                             gen |-> generate_alias_content(aliases),
                             out |-> new_content])]
    /\ pc' = IF config_path = bashrc_path THEN "zshrc" ELSE "idle"
    /\ UNCHANGED <<alias_txt, aliases, runs, started, locals>>

(***************************************************************************)
(* The user edits alias.txt between two runs.                              *)
(***************************************************************************)
EditAliasTxt ==
    /\ pc = "idle"
    /\ runs \in 1..(MaxRuns - 1)
    /\ alias_txt' \in AliasFiles \ {alias_txt}
    /\ UNCHANGED <<files, aliases, pc, runs, started, hist, locals>>

Next ==
    \/ Main
    \/ RunCheckAliases
    \/ RunBashrc
    \/ RunZshrc
    \/ ReadConfig
    \/ BackupConfig
    \/ RemoveSection
    \/ AddSection
    \/ WriteConfig
    \/ EditAliasTxt

Spec == Init /\ [][Next]_vars

(***************************************************************************)
(* Notions the properties are stated in.                                   *)
(***************************************************************************)
\* the text of a file, "" for a missing one
Text(f) == IF f = <<>> THEN "" ELSE f[1]

\* how often the marker occurs in s
Count(s) == Cardinality(Occurrences(s, "## local-helpers", 1))

\* s without its marker-delimited spans: the markers are paired up in the
\* order they occur (1st with 2nd, 3rd with 4th, ...) and each pair is cut
\* out with everything between; occ holds the marker positions >= from
RECURSIVE OutsideFrom(_, _, _)
OutsideFrom(s, from, occ) ==
    IF Cardinality(occ) < 2 THEN SubSeq(s, from, Len(s))
    ELSE LET a == Min(occ)
             b == Min(occ \ {a})
         IN  SubSeq(s, from, a - 1)
             \o OutsideFrom(s, b + Len("## local-helpers"), occ \ {a, b})

Outside(s) == OutsideFrom(s, 1, Occurrences(s, "## local-helpers", 1))

\* s without its first marker-delimited span only
OutsideFirst(s) ==
    LET occ == Occurrences(s, "## local-helpers", 1)
    IN  IF Cardinality(occ) < 2 THEN s
        ELSE SubSeq(s, 1, Min(occ) - 1)
             \o SubSeq(s, Min(occ \ {Min(occ)}) + Len("## local-helpers"), Len(s))

\* residual, a blank-line separator and the section; the section alone
\* after an empty residual
Joined(residual, section) ==
    IF residual = "" THEN section ELSE residual \o "\n\n" \o section

\* the section is wrapped: it begins with the start marker on its own line
\* and ends with the end marker on its own line
Wrapped(section) ==
    /\ StartsWith(section, "## local-helpers\n")
    /\ EndsWith(section, "\n## local-helpers")

\* the completed calls on path p, and the latest of them
Calls(p) == Len(hist[p])
LastCall(p) == hist[p][Len(hist[p])]

\* the lines between the two header lines and the end marker of a section
Body(section) ==
    SubSeq(section,
           Len("## local-helpers\n# Aliases for local helper scripts\n# Generated automatically by setup.py\n\n") + 1,
           Len(section) - Len("\n\n## local-helpers"))

(***************************************************************************)
(* C1  Idempotence                                                         *)
(***************************************************************************)
\* C1: a second update_shell_config with an unchanged alias set leaves the
\* file's text exactly as the first left it: whenever two consecutive calls
\* on a path wrote the same section, they wrote the same text.
C1_Idempotent ==
    \A p \in ConfigPaths : \A i \in 2..Calls(p) :
        hist[p][i].gen = hist[p][i - 1].gen
            => hist[p][i].out = hist[p][i - 1].out

(***************************************************************************)
(* C2  Exactly one block, at the end                                       *)
(***************************************************************************)
\* C2: after every call the text holds exactly one marker-delimited block
\* (two marker occurrences), that block is the final span of the text, and
\* no marker occurs outside it.
C2_ExactlyOneFinalBlock ==
    \A p \in ConfigPaths : \A i \in 1..Calls(p) :
        /\ Count(hist[p][i].out) = 2
        /\ EndsWith(hist[p][i].out, hist[p][i].gen)

(***************************************************************************)
(* C3  Preservation of the text around a prior block                       *)
(***************************************************************************)
\* the merge is done and its result is about to be written (line 157): the
\* document is orig, the section generate_alias_content(aliases), the
\* output new_content
Merged == pc = "write"

\* C3 as stated: for a document with a prior block, the output keeps every
\* character outside that block, whitespace before and after it included,
\* and removes nothing but that one span: the document without the span
\* opens the output and the new section closes it.
C3_KeepsEveryCharacter ==
    (Merged /\ find_existing_section(Text(orig)) # <<0, 0>>)
        => /\ StartsWith(new_content, OutsideFirst(Text(orig)))
           /\ EndsWith(new_content, generate_alias_content(aliases))

\* C3 amended: for a document with a prior block, the output is the text
\* outside all of the document's marker-delimited spans, in its order, with
\* the whitespace at its two ends trimmed, followed by the new section.
C3_KeepsTrimmedOutside ==
    (Merged /\ find_existing_section(Text(orig)) # <<0, 0>>)
        => new_content = Joined(Strip(Outside(Text(orig))),
                                generate_alias_content(aliases))

\* a document of an old block followed by a line of text has been merged:
\* the line is kept, the old block is gone
C3_Witness ==
    /\ Merged
    /\ orig = <<"## local-helpers\nalias old=\"x\"\n## local-helpersexport A=1\n">>
    /\ StartsWith(new_content, "export A=1\n\n## local-helpers\n# ")
    /\ ~Contains(new_content, "alias old")

(***************************************************************************)
(* C4  Preservation without a prior block                                  *)
(***************************************************************************)
\* C4: for a document without a block whose trimmed text is not empty, the
\* output is the trimmed text, a blank-line separator and the wrapped
\* section.
C4_AppendsToTrimmedText ==
    (/\ Merged
     /\ find_existing_section(Text(orig)) = <<0, 0>>
     /\ Strip(Text(orig)) # "")
        => /\ new_content = Strip(Text(orig)) \o "\n\n"
                              \o generate_alias_content(aliases)
           /\ Wrapped(generate_alias_content(aliases))

\* a document of plain text between blank lines has been merged
C4_Witness ==
    /\ Merged
    /\ orig = <<"\nexport A=1\n">>
    /\ StartsWith(new_content, "export A=1\n\n## local-helpers\n# ")

(***************************************************************************)
(* C5  Replacement, not accumulation                                       *)
(***************************************************************************)
\* C5: when two consecutive calls on a path wrote sections with different
\* bodies g1 and g2, the second output holds one start and one end marker
\* (two occurrences), ends with the section of g2, and holds nothing of g1.
C5_Replaces ==
    \A p \in ConfigPaths : \A i \in 2..Calls(p) :
        hist[p][i].gen # hist[p][i - 1].gen
            => /\ Count(hist[p][i].out) = 2
               /\ EndsWith(hist[p][i].out, hist[p][i].gen)
               /\ ~Contains(hist[p][i].out, Body(hist[p][i - 1].gen))

(***************************************************************************)
(* C6  Unmatched start marker                                              *)
(***************************************************************************)
\* C6: when the document holds a marker with no second marker behind it,
\* the merge appends the section after the (trimmed) original text, and no
\* later merge of the file truncates that text: it opens every output.
C6_StrayMarkerNeverTruncates ==
    \A p \in ConfigPaths :
        (Calls(p) > 0 /\ Count(Text(hist[p][1].doc)) = 1)
            => /\ hist[p][1].out = Strip(Text(hist[p][1].doc)) \o "\n\n"
                                     \o hist[p][1].gen
               /\ \A i \in 1..Calls(p) :
                      StartsWith(hist[p][i].out, Strip(Text(hist[p][1].doc)))

(***************************************************************************)
(* C7  Empty document                                                      *)
(***************************************************************************)
\* C7: when the file is missing, empty or whitespace-only, or removing the
\* prior block leaves nothing, the output is the wrapped section alone: it
\* begins with the start marker.
C7_EmptyGivesSectionAlone ==
    (/\ Merged
     /\ \/ orig = <<>>
        \/ Strip(Text(orig)) = ""
        \/ /\ find_existing_section(Text(orig)) # <<0, 0>>
           /\ Strip(Outside(Text(orig))) = "")
        => /\ new_content = generate_alias_content(aliases)
           /\ Wrapped(new_content)

\* a missing ~/.zshrc has been merged after a ~/.bashrc that held nothing but
\* a block: both results are the section alone
C7_Witness ==
    /\ Merged
    /\ config_path = zshrc_path
    /\ orig = <<>>
    /\ Calls(bashrc_path) = 1
    /\ LastCall(bashrc_path).doc
         = <<"\n## local-helpers\nalias old=\"x\"\n## local-helpers">>
    /\ files[bashrc_path] = <<new_content>>

(***************************************************************************)
(* C8  Several blocks                                                      *)
(***************************************************************************)
\* C8 as stated: when the content holds more than one block, only the first
\* matched span is removed and every later block stays in the residual.
C8_RemovesOnlyFirst ==
    (pc = "add" /\ Count(current_content) >= 4)
        => new_content = Strip(OutsideFirst(current_content))

\* C8 amended: when the content holds more than one block, every matched
\* span is removed, the later ones as the first; the residual is the
\* trimmed text outside all of them.
C8_RemovesEveryBlock ==
    (pc = "add" /\ Count(current_content) >= 4)
        => /\ new_content = Strip(Outside(current_content))
           /\ Len(new_content) < Len(Strip(OutsideFirst(current_content)))

\* the residual of a content of two blocks has been computed: both are gone
C8_Witness ==
    /\ pc = "add"
    /\ Count(current_content) = 4
    /\ find_existing_section(current_content) = <<1, 47>>
    /\ Search(current_content, 48) = <<48, 94>>
    /\ new_content = ""

(***************************************************************************)
(* C9  Backup ordering                                                     *)
(***************************************************************************)
\* the file the current call found, as a file that exists (a missing file
\* is touched first)
Found == IF orig = <<>> THEN <<"">> ELSE orig

\* C9: when update_shell_config overwrites the config file, the backup
\* already holds the file's contents from before the call and still holds
\* them when the call finishes; from the second call on a path, they are
\* the output of the call before.
C9_BackupBeforeOverwrite ==
    [][(pc = "write" /\ pc' # "write")
         => /\ files[config_path] = Found
            /\ files[backup_path(config_path)] = Found
            /\ files'[backup_path(config_path)] = Found
            /\ Calls(config_path) > 0
                 => files'[backup_path(config_path)]
                      = <<LastCall(config_path).out>>]_vars

\* after two calls the backup holds the first call's output, not the user's
\* original file
C9_Witness ==
    /\ Calls(bashrc_path) = 2
    /\ files[backup_path(bashrc_path)] = <<hist[bashrc_path][1].out>>
    /\ files[backup_path(bashrc_path)] # hist[bashrc_path][1].doc
    /\ files[bashrc_path] # files[backup_path(bashrc_path)]

(***************************************************************************)
(* C10  No aliases, no change                                              *)
(***************************************************************************)
\* C10: with an empty alias set run() returns before any update step: no
\* file is created, backed up or modified, and update_shell_config is never
\* entered.
C10_NoAliasesNoChange ==
    (runs > 0 /\ aliases = <<>>)
        => /\ files = started
           /\ pc \in {"run", "idle"}

\* run() has returned on an alias.txt without a valid line, with a missing
\* ~/.zshrc and an existing ~/.bashrc
C10_Witness ==
    /\ runs > 0
    /\ pc = "idle"
    /\ aliases = <<>>
    /\ alias_txt.state = "ok"
    /\ files[bashrc_path] # <<>>
    /\ files[zshrc_path] = <<>>

====
